---- MODULE Spec2Model ----
(***************************************************************************)
(* Model of Voice-AI-Prompt-Optimizer/optimize.py: the optimisation loop   *)
(* of VoiceAssistantOptimizer (suite construction, evaluation, scoring,    *)
(* best tracking, stopping rules, research and prompt rewriting), and      *)
(* main() around it (Config.validate, save_results, KeyboardInterrupt).    *)
(*                                                                         *)
(* Python values are modelled as follows.                                  *)
(*   str    a sequence of tokens; " " and "\n" are the whitespace tokens,  *)
(*          every other token stands for a run of non-blank characters.    *)
(*   None   the record PyNone; a str s that must be compared with None is  *)
(*          wrapped as PyStr(s), so that == is record equality.            *)
(*   float  an exact fraction [num, den] with den > 0 (no rounding).       *)
(***************************************************************************)
EXTENDS Integers, Sequences, FiniteSets, TLC

\* ------------------------------------------------------------------ bounds
MaxSeeds == 2
MaxVariations == 2
MaxContentLen == 3
MaxIter == 2
MaxCases == 1
MaxEvalCases == 4
MaxRewriteCases == 6
MaxTurns == 3            \* turns of one gateway request

\* ------------------------------------------------------------ Python values
PyNone == [type |-> "NoneType"]
PyStr(s) == [type |-> "str", value |-> s]

Whitespace == {" ", "\n"}

RECURSIVE LStrip(_)
LStrip(s) ==
    IF s = <<>> THEN s
    ELSE IF Head(s) \in Whitespace THEN LStrip(Tail(s)) ELSE s

RECURSIVE RStrip(_)
RStrip(s) ==
    IF s = <<>> THEN s
    ELSE IF s[Len(s)] \in Whitespace THEN RStrip(SubSeq(s, 1, Len(s) - 1)) ELSE s

\* str.strip()
Strip(s) == RStrip(LStrip(s))

\* str.split('\n'): always at least one piece
RECURSIVE SplitLines(_)
SplitLines(s) ==
    IF \A i \in 1..Len(s) : s[i] # "\n" THEN <<s>>
    ELSE LET i == CHOOSE k \in 1..Len(s) :
                      s[k] = "\n" /\ \A j \in 1..(k - 1) : s[j] # "\n"
         IN  <<SubSeq(s, 1, i - 1)>> \o SplitLines(SubSeq(s, i + 1, Len(s)))

\* seq[:k], negative k counting from the end as Python does
SliceTo(seq, k) ==
    IF k >= 0 THEN SubSeq(seq, 1, IF k < Len(seq) THEN k ELSE Len(seq))
    ELSE SubSeq(seq, 1, IF Len(seq) + k > 0 THEN Len(seq) + k ELSE 0)

RECURSIVE StripKeepBlank(_)
\* mutant: [v.strip() for v in generated], blank lines kept
StripKeepBlank(lines) ==
    IF lines = <<>> THEN <<>>
    ELSE <<Strip(Head(lines))>> \o StripKeepBlank(Tail(lines))

RECURSIVE StripNonBlank(_)
\* [v.strip() for v in generated if v.strip()]
StripNonBlank(lines) ==
    IF lines = <<>> THEN <<>>
    ELSE LET v == Strip(Head(lines))
         IN  (IF v # <<>> THEN <<v>> ELSE <<>>) \o StripNonBlank(Tail(lines))

\* ------------------------------------------------------------------ floats
Abs(n) == IF n < 0 THEN 0 - n ELSE n

Gcd[a \in Nat, b \in Nat] == IF b = 0 THEN a ELSE Gcd[b, a % b]

\* the fraction n/d in lowest terms, d > 0
Lowest[n \in Int, d \in Nat] ==
    [num |-> n \div Gcd[Abs(n), d], den |-> d \div Gcd[Abs(n), d]]

Frac(n, d) == Lowest[n, d]

FracLt(a, b) == a.num * b.den < b.num * a.den
FracGe(a, b) == ~FracLt(a, b)
FracGt(a, b) == FracLt(b, a)
FracSub(a, b) == Frac(a.num * b.den - b.num * a.den, a.den * b.den)
FracAdd(a, b) == Frac(a.num * b.den + b.num * a.den, a.den * b.den)
FracMul(a, b) == Frac(a.num * b.num, a.den * b.den)
PerMille(n) == Frac(n, 1000)

\* ------------------------------------------------------------- static data
\* the names of FUNCTIONS
FunctionNames == {<<"answer_question">>, <<"escalate_to_human">>}

INITIAL_PROMPT == <<"P0">>

\* ------------------------------------------------------------------- state
VARIABLES
    Config,            \* the class Config after Config.validate()
    TEST_QUERIES,      \* the seed queries
    pc,                \* where optimize() stands
    query_idx,         \* position of the suite loop in TEST_QUERIES
    test_suite,        \* optimize(): test_suite
    response,          \* what the last remote call returned
    current_prompt,    \* optimize(): current_prompt
    iteration,         \* optimize(): iteration
    results,           \* run_iteration(): results
    result,            \* run_iteration(): result (None outside run_iteration)
    metrics_history,   \* self.metrics_history
    best_prompt,       \* self.best_prompt
    best_score,        \* self.best_score
    research_insights, \* optimize(): research_insights
    stop_reason,       \* how the loop was left
    prompt_log,        \* the prompt each run_iteration() was called with
    call_log,          \* the remote calls issued so far, in order
    metaprompt,        \* optimize_prompt(): what the last metaprompt held
    files,             \* the files of the run directory
    credentials,       \* the API keys found in the environment
    messages,          \* the turns a client hands to the gateway
    request            \* what the gateway passed to the backend's API for them

vars ==
    <<Config, TEST_QUERIES, pc, query_idx, test_suite, response, current_prompt,
      iteration, results, result, metrics_history, best_prompt, best_score,
      research_insights, stop_reason, prompt_log, call_log, metaprompt, files,
      credentials, messages, request>>

\* the variables main() touches outside optimize()
main_vars == <<files, credentials>>

\* the variables of a gateway call looked at on its own
gateway_vars == <<messages, request>>

\* ---------------------------------------------------------- Model Gateway
\* chat_completion returns None on any exception, else the completion
Completion(content) == [type |-> "dict", content |-> content]

\* chat_completion_with_tools / chat_completion(functions=...): a function call
FunctionCall(name, valid_json) ==
    [type |-> "dict", function_call |-> [name |-> name, valid_json |-> valid_json]]

\* `if response:` / `if not response:`
Truthy(r) == r # PyNone

Texts(Tokens, n) == UNION {[1..k -> Tokens] : k \in 0..n}

\* what the gateway may answer to the paraphrase request
VariationResponses ==
    {PyNone} \cup {Completion(c) : c \in Texts({" ", "\n", "p1"}, MaxContentLen)}

\* the paraphrase answers explored together with the optimisation loop
LoopVariationResponses == {PyNone, Completion(<<"p1", "\n">>)}

\* ---------------------------------------------------------- configuration
DefaultConfig ==
    [PRIMARY_MODEL        |-> "CLAUDE",
     MAX_ITERATIONS       |-> 5,
     TARGET_ACCURACY      |-> PerMille(900),
     MIN_IMPROVEMENT      |-> PerMille(20),
     VARIATIONS_PER_QUERY |-> 2,
     FUNCTION_WEIGHT      |-> PerMille(700),
     PARAMETER_WEIGHT     |-> PerMille(300),
     USE_PERPLEXITY       |-> TRUE]

\* the stopping thresholds explored with the optimisation loop: the defaults,
\* a threshold above the largest possible gain, a target above the largest
\* possible score with a threshold equal to the largest possible gain, and the
\* defaults with a parameter weight of 0 (an iteration may then score 0.0)
LoopThresholds ==
    {[TARGET_ACCURACY |-> PerMille(900), MIN_IMPROVEMENT |-> PerMille(20),
      PARAMETER_WEIGHT |-> PerMille(300)],
     [TARGET_ACCURACY |-> PerMille(900), MIN_IMPROVEMENT |-> PerMille(800),
      PARAMETER_WEIGHT |-> PerMille(300)],
     [TARGET_ACCURACY |-> PerMille(950), MIN_IMPROVEMENT |-> PerMille(700),
      PARAMETER_WEIGHT |-> PerMille(300)],
     [TARGET_ACCURACY |-> PerMille(900), MIN_IMPROVEMENT |-> PerMille(20),
      PARAMETER_WEIGHT |-> PerMille(0)]}

\* the configurations explored with the optimisation loop
LoopConfigs ==
    {[PRIMARY_MODEL        |-> backend,
      MAX_ITERATIONS       |-> budget,
      TARGET_ACCURACY      |-> th.TARGET_ACCURACY,
      MIN_IMPROVEMENT      |-> th.MIN_IMPROVEMENT,
      VARIATIONS_PER_QUERY |-> n,
      FUNCTION_WEIGHT      |-> PerMille(700),
      PARAMETER_WEIGHT     |-> th.PARAMETER_WEIGHT,
      USE_PERPLEXITY       |-> research] :
        backend \in {"CLAUDE", "OPENAI"}, budget \in 0..MaxIter,
        th \in LoopThresholds, n \in 1..MaxVariations, research \in BOOLEAN}

\* the configurations explored with a single iteration
EvalConfigs ==
    {[DefaultConfig EXCEPT !.PRIMARY_MODEL = backend,
                           !.MAX_ITERATIONS = 1,
                           !.VARIATIONS_PER_QUERY = n,
                           !.FUNCTION_WEIGHT = w.f,
                           !.PARAMETER_WEIGHT = w.p] :
        backend \in {"CLAUDE", "OPENAI"}, n \in 1..MaxVariations,
        w \in {[f |-> PerMille(700), p |-> PerMille(300)],
               [f |-> PerMille(500), p |-> PerMille(250)]}}

\* the configurations explored with suite construction alone: the loop body
\* never runs (range(1, MAX_ITERATIONS + 1) is empty)
SuiteConfigs ==
    {[DefaultConfig EXCEPT !.MAX_ITERATIONS = 0, !.VARIATIONS_PER_QUERY = n] :
        n \in 1..MaxVariations}

\* the seed lists explored: q1, q2, q1, ... up to MaxSeeds seeds
QueryLists ==
    {[i \in 1..k |-> IF i % 2 = 1 THEN <<"q1">> ELSE <<"q2">>] : k \in 0..MaxSeeds}

\* VoiceAssistantOptimizer.__init__ and the locals of optimize()
InitState ==
    /\ query_idx = 1
    /\ test_suite = <<>>
    /\ response = PyNone
    /\ current_prompt = INITIAL_PROMPT
    /\ iteration = 0
    /\ results = <<>>
    /\ result = PyNone
    /\ metrics_history = <<>>
    /\ best_prompt = INITIAL_PROMPT
    /\ best_score = Frac(0, 1)
    /\ research_insights = <<>>
    /\ stop_reason = "none"
    /\ prompt_log = <<>>
    /\ call_log = <<>>
    /\ metaprompt = PyNone
    /\ files = {}
    /\ request = PyNone

\* the names of the API keys
Credentials == {"ANTHROPIC_API_KEY", "OPENAI_API_KEY", "PERPLEXITY_API_KEY"}

Init ==
    /\ Config \in LoopConfigs
    /\ credentials = Credentials
    /\ pc = "generate_suite"
    /\ TEST_QUERIES \in QueryLists
    /\ Len(TEST_QUERIES) * Config.VARIATIONS_PER_QUERY <= MaxCases
    /\ messages = <<>>
    /\ InitState

InitEval ==
    /\ Config \in EvalConfigs
    /\ credentials = Credentials
    /\ pc = "generate_suite"
    /\ TEST_QUERIES \in QueryLists
    /\ Len(TEST_QUERIES) * Config.VARIATIONS_PER_QUERY <= MaxEvalCases
    /\ messages = <<>>
    /\ InitState

InitSuite ==
    /\ Config \in SuiteConfigs
    /\ credentials = Credentials
    /\ pc = "generate_suite"
    /\ TEST_QUERIES \in QueryLists
    /\ messages = <<>>
    /\ InitState

\* ------------------------------------------------------ Test Suite Builder
\* mutant: the slice is [:num_variations]
GenerateQueryVariationsOffByOne(query, num_variations, resp) ==
    IF Truthy(resp)
    THEN <<query>> \o
         SliceTo(StripNonBlank(SplitLines(Strip(resp.content))), num_variations)
    ELSE <<query>>

\* mutant: the seed is appended after the paraphrases
GenerateQueryVariationsSeedLast(query, num_variations, resp) ==
    IF Truthy(resp)
    THEN SliceTo(StripNonBlank(SplitLines(Strip(resp.content))), num_variations - 1)
         \o <<query>>
    ELSE <<query>>

\* generate_query_variations, given what the gateway answered
GenerateQueryVariations(query, num_variations, resp) ==
    LET variations == <<query>>
    IN  IF Truthy(resp)
        THEN LET generated == SplitLines(Strip(resp.content))
             IN  variations \o SliceTo(StripNonBlank(generated), num_variations - 1)
        ELSE variations

\* a remote call: the call site, the iteration (0 before the loop) and the
\* seed or TestCase it is made for (0 for research and rewrite)
RemoteCall(site, it, case) == [site |-> site, iteration |-> it, case |-> case]

\* one round of `for query in TEST_QUERIES`
GenerateTestSuite(Responses) ==
    /\ pc = "generate_suite"
    /\ query_idx <= Len(TEST_QUERIES)
    /\ \E r \in Responses :
          LET query == TEST_QUERIES[query_idx]
              variations ==
                  GenerateQueryVariations(query, Config.VARIATIONS_PER_QUERY, r)
          IN  /\ response' = r
              /\ test_suite' = test_suite \o
                    [i \in 1..Len(variations) |->
                        [original |-> query, variation |-> variations[i]]]
    /\ query_idx' = query_idx + 1
    /\ call_log' = Append(call_log, RemoteCall("variations", 0, query_idx))
    /\ UNCHANGED <<Config, TEST_QUERIES, pc, current_prompt, iteration, results,
                   result, metrics_history, best_prompt, best_score,
                   research_insights, stop_reason, prompt_log, metaprompt,
                   main_vars,
                   gateway_vars>>

BuildSuite == GenerateTestSuite(LoopVariationResponses)

BuildSuiteAny == GenerateTestSuite(VariationResponses)

\* mutant: the loop is range(1, MAX_ITERATIONS + 2)
HasIterationOffByOne(it) == it + 1 <= Config.MAX_ITERATIONS + 1

\* for iteration in range(1, MAX_ITERATIONS + 1): a value follows `it`
HasIteration(it) == it + 1 <= Config.MAX_ITERATIONS

\* the suite is built: current_prompt = INITIAL_PROMPT and the for loop starts
StartLoop ==
    /\ pc = "generate_suite"
    /\ query_idx > Len(TEST_QUERIES)
    /\ current_prompt' = INITIAL_PROMPT
    /\ IF HasIteration(0)
       THEN /\ iteration' = 1
            /\ pc' = "run_iteration"
            /\ stop_reason' = stop_reason
            /\ prompt_log' = Append(prompt_log, current_prompt')
       ELSE /\ iteration' = iteration
            /\ pc' = "done"
            /\ stop_reason' = "budget"
            /\ prompt_log' = prompt_log
    /\ results' = <<>>
    /\ UNCHANGED <<Config, TEST_QUERIES, query_idx, test_suite, response, result,
                   metrics_history, best_prompt, best_score, research_insights,
                   call_log, metaprompt, main_vars,
                   gateway_vars>>

NextSuite == BuildSuiteAny \/ StartLoop

SuiteSpec == InitSuite /\ [][NextSuite]_vars

\* --------------------------------------------------------------- Evaluator
\* what the gateway may answer to the tool-enabled agent call, the tool being
\* one of Names; only the OpenAI backend hands the arguments on as the text
\* the model wrote (the Claude wrapper json.dumps them itself)
AgentResponses(Names, backend) ==
    {PyNone, Completion(<<"hello">>)}
    \cup {FunctionCall(f, TRUE) : f \in Names}
    \cup (IF backend = "OPENAI"
          THEN {FunctionCall(<<"answer_question">>, FALSE)}
          ELSE {})

\* json.loads(arguments) raises
Raises(resp) ==
    /\ Truthy(resp)
    /\ "function_call" \in DOMAIN resp
    /\ ~resp.function_call.valid_json

\* call_voice_assistant, given what the gateway answered
CallVoiceAssistantResult(query, resp) ==
    IF ~Truthy(resp)
    THEN [query |-> query, function |-> PyNone, success |-> FALSE]
    ELSE IF "function_call" \in DOMAIN resp
    THEN [query |-> query, function |-> PyStr(resp.function_call.name),
          success |-> TRUE]
    ELSE [query |-> query, function |-> PyNone, success |-> TRUE]

\* what the gateway may answer to the expected-function probe
ProbeResponses ==
    {PyNone, Completion(<<" ", "answer_question", "\n">>),
     Completion(<<"escalate_to_human">>)}

\* the probe answers explored together with the optimisation loop
LoopProbeResponses == {PyNone, Completion(<<" ", "answer_question", "\n">>)}

\* get_expected_function, given what the gateway answered
ExpectedFunction(resp) ==
    IF Truthy(resp) THEN PyStr(Strip(resp.content)) ELSE PyStr(<<"unknown">>)

\* mutant: an absent function matches the "unknown" sentinel
IsCorrectAbsentMatches(actual, expected) ==
    \/ actual = expected
    \/ actual = PyNone /\ expected = PyStr(<<"unknown">>)

\* result['function'] == expected
IsCorrect(actual, expected) == actual = expected

\* mutant: the seed is evaluated in place of the variation
TestQueryOriginal(test) == test.original

\* test['variation'], the query handed to call_voice_assistant
TestQuery(test) == test.variation

\* run_iteration: first half of one round of `for test in test_suite`
CallVoiceAssistant(Names) ==
    /\ pc = "run_iteration"
    /\ Len(results) < Len(test_suite)
    /\ \E r \in AgentResponses(Names, Config.PRIMARY_MODEL) :
          LET test == test_suite[Len(results) + 1]
          IN  /\ response' = r
              /\ IF Raises(r)
                 THEN /\ pc' = "crashed"
                      /\ stop_reason' = "exception"
                      /\ result' = result
                 ELSE /\ pc' = "get_expected_function"
                      /\ stop_reason' = stop_reason
                      /\ result' = CallVoiceAssistantResult(TestQuery(test), r)
    /\ call_log' = Append(call_log, RemoteCall("agent", iteration, Len(results) + 1))
    /\ UNCHANGED <<Config, TEST_QUERIES, query_idx, test_suite, current_prompt,
                   iteration, results, metrics_history, best_prompt, best_score,
                   research_insights, prompt_log, metaprompt, main_vars,
                   gateway_vars>>

\* run_iteration: second half of the round
GetExpectedFunction(Responses) ==
    /\ pc = "get_expected_function"
    /\ \E r \in Responses :
          LET expected == ExpectedFunction(r)
          IN  /\ response' = r
              /\ results' = Append(results,
                    [query    |-> result.query,
                     expected |-> expected,
                     actual   |-> result.function,
                     correct  |-> IsCorrect(result.function, expected)])
    /\ pc' = "run_iteration"
    /\ call_log' = Append(call_log, RemoteCall("probe", iteration, Len(results) + 1))
    /\ UNCHANGED <<Config, TEST_QUERIES, query_idx, test_suite, current_prompt,
                   iteration, result, metrics_history, best_prompt, best_score,
                   research_insights, stop_reason, prompt_log, metaprompt,
                   main_vars,
                   gateway_vars>>

\* mutant: every result is counted
CorrectCountAll(rs) == Len(rs)

\* sum(1 for r in results if r['correct'])
CorrectCount(rs) == Cardinality({i \in 1..Len(rs) : rs[i].correct})

\* mutant: floor division, correct // total
FunctionAccFloorDiv(correct, total) ==
    IF total > 0 THEN Frac(correct \div total, 1) ELSE Frac(0, 1)

\* correct / total if total > 0 else 0
FunctionAcc(correct, total) ==
    IF total > 0 THEN Frac(correct, total) ELSE Frac(0, 1)

\* mutant: the parameter score taken as 1.0
OverallFullParameterScore(function_acc) ==
    FracAdd(FracMul(function_acc, Config.FUNCTION_WEIGHT),
            Config.PARAMETER_WEIGHT)

\* function_acc * Config.FUNCTION_WEIGHT + 0.8 * Config.PARAMETER_WEIGHT
Overall(function_acc) ==
    FracAdd(FracMul(function_acc, Config.FUNCTION_WEIGHT),
            FracMul(Frac(8, 10), Config.PARAMETER_WEIGHT))

\* mutant: the metrics dict numbered from zero
MetricsZeroBased(rs, it) ==
    LET total == Len(rs)
        correct == CorrectCount(rs)
        function_acc == FunctionAcc(correct, total)
    IN  [iteration    |-> it - 1,
         overall      |-> Overall(function_acc),
         function_acc |-> function_acc,
         correct      |-> correct,
         total        |-> total,
         evaluations  |-> rs]

\* run_iteration: the metrics dict
Metrics(rs, it) ==
    LET total == Len(rs)
        correct == CorrectCount(rs)
        function_acc == FunctionAcc(correct, total)
    IN  [iteration    |-> it,
         overall      |-> Overall(function_acc),
         function_acc |-> function_acc,
         correct      |-> correct,
         total        |-> total,
         evaluations  |-> rs]

\* ------------------------------------------------------- Optimization Loop
\* mutant: the best is overwritten by every iteration
IsNewBestAlways(metrics, best) == TRUE

\* mutant: metrics['overall'] >= self.best_score
IsNewBestOrEqual(metrics, best) == FracGe(metrics.overall, best)

\* mutant: metrics['function_acc'] > self.best_score
IsNewBestByAccuracy(metrics, best) == FracGt(metrics.function_acc, best)

\* if metrics['overall'] > self.best_score
IsNewBest(metrics, best) == FracGt(metrics.overall, best)

\* metrics['overall'] >= Config.TARGET_ACCURACY
TargetReached(metrics) == FracGe(metrics.overall, Config.TARGET_ACCURACY)

\* mutant: the plateau test starts one iteration late, iteration > 2
BelowThresholdLate(it, metrics, history) ==
    /\ it > 2
    /\ FracLt(FracSub(metrics.overall, history[Len(history) - 1].overall),
              Config.MIN_IMPROVEMENT)

\* iteration > 1 and improvement < Config.MIN_IMPROVEMENT, `history` being
\* metrics_history with this iteration's metrics appended
BelowThreshold(it, metrics, history) ==
    /\ it > 1
    /\ FracLt(FracSub(metrics.overall, history[Len(history) - 1].overall),
              Config.MIN_IMPROVEMENT)

\* mutant: the plateau test comes first
StopCheckPlateauFirst(it, metrics, history) ==
    IF BelowThreshold(it, metrics, history) THEN "plateau"
    ELSE IF TargetReached(metrics) THEN "target"
    ELSE "none"

\* the two break statements, in the order of the code
StopCheck(it, metrics, history) ==
    IF TargetReached(metrics) THEN "target"
    ELSE IF BelowThreshold(it, metrics, history) THEN "plateau"
    ELSE "none"

\* mutant: a next prompt is generated after the last iteration too
NeedsNextPromptAlways(it) == it <= Config.MAX_ITERATIONS

\* if iteration < Config.MAX_ITERATIONS: a next prompt is generated
NeedsNextPrompt(it) == it < Config.MAX_ITERATIONS

\* mutant: the switch is not consulted
ResearchDueUnconditionally(it) == it = 1

\* if Config.USE_PERPLEXITY and iteration == 1
ResearchDue(it) == Config.USE_PERPLEXITY /\ it = 1

\* optimize(): what follows run_iteration's loop in one round of the for loop,
\* up to the break, the end of the loop, the next round or the call for the
\* next prompt
CompleteIteration ==
    /\ pc = "run_iteration"
    /\ Len(results) = Len(test_suite)
    /\ LET metrics == Metrics(results, iteration)
           history == Append(metrics_history, metrics)
           stop == StopCheck(iteration, metrics, history)
       IN  /\ metrics_history' = history
           /\ IF IsNewBest(metrics, best_score)
              THEN /\ best_score' = metrics.overall
                   /\ best_prompt' = current_prompt
              ELSE /\ best_score' = best_score
                   /\ best_prompt' = best_prompt
           /\ IF stop # "none"
              THEN /\ pc' = "done"
                   /\ stop_reason' = stop
                   /\ UNCHANGED <<research_insights, iteration, results, prompt_log>>
              ELSE IF NeedsNextPrompt(iteration)
              THEN /\ pc' = IF ResearchDue(iteration)
                            THEN "research" ELSE "optimize_prompt"
                   /\ research_insights' = <<>>
                   /\ UNCHANGED <<stop_reason, iteration, results, prompt_log>>
              ELSE IF HasIteration(iteration)
              THEN /\ pc' = "run_iteration"
                   /\ iteration' = iteration + 1
                   /\ results' = <<>>
                   /\ prompt_log' = Append(prompt_log, current_prompt)
                   /\ UNCHANGED <<stop_reason, research_insights>>
              ELSE /\ pc' = "done"
                   /\ stop_reason' = "budget"
                   /\ UNCHANGED <<research_insights, iteration, results, prompt_log>>
    /\ result' = PyNone
    /\ UNCHANGED <<Config, TEST_QUERIES, query_idx, test_suite, response,
                   current_prompt, call_log, metaprompt, main_vars,
                   gateway_vars>>

\* what PerplexityClient.research may return
ResearchResponses == {PyNone, PyStr(<<>>), PyStr(<<"insight">>)}

\* research_optimization_strategies (self.perplexity is set)
ResearchOptimizationStrategies ==
    /\ pc = "research"
    /\ \E r \in ResearchResponses :
          /\ response' = r
          /\ research_insights' =
                IF r # PyNone /\ r.value # <<>> THEN r.value ELSE <<>>
    /\ pc' = "optimize_prompt"
    /\ call_log' = Append(call_log, RemoteCall("research", iteration, 0))
    /\ UNCHANGED <<Config, TEST_QUERIES, query_idx, test_suite, current_prompt,
                   iteration, results, result, metrics_history, best_prompt,
                   best_score, stop_reason, prompt_log, metaprompt, main_vars,
                   gateway_vars>>

\* what the gateway may answer to the rewrite request after iteration `it`:
\* nothing, or a prompt not seen before, wrapped in blanks
RewriteResponses(it) ==
    {PyNone, Completion(<<" ", <<"P1", "P2", "P3", "P4">>[it], "\n">>)}

\* mutant: an empty prompt on failure
OptimizePromptResultEmptyOnFailure(prompt, resp) ==
    IF Truthy(resp) THEN Strip(resp.content) ELSE <<>>

\* optimize_prompt, given what the gateway answered
OptimizePromptResult(prompt, resp) ==
    IF Truthy(resp) THEN Strip(resp.content) ELSE prompt

\* the number of the slice [:5]
MaxErrorExamples == 5

RECURSIVE Incorrect(_)
\* [e for e in evaluations if not e['correct']]
Incorrect(evaluations) ==
    IF evaluations = <<>> THEN <<>>
    ELSE (IF Head(evaluations).correct THEN <<>> ELSE <<Head(evaluations)>>)
         \o Incorrect(Tail(evaluations))

\* mutant: the last five, [-5:]
ErrorExamplesLast(evaluations) ==
    LET errors == Incorrect(evaluations)
    IN  SubSeq(errors,
               IF Len(errors) > MaxErrorExamples
               THEN Len(errors) - MaxErrorExamples + 1 ELSE 1,
               Len(errors))

\* errors = [e for e in metrics['evaluations'] if not e['correct']][:5]
ErrorExamples(evaluations) == SliceTo(Incorrect(evaluations), MaxErrorExamples)

\* the parts of the metaprompt that vary: the prompt, the metrics' iteration,
\* the error lines (one per example: query, expected, actual), whether the
\* placeholder stands in for them (error_text is empty) and the research text
MetaPrompt(prompt, metrics, insights) ==
    LET errors == ErrorExamples(metrics.evaluations)
        error_text == [i \in 1..Len(errors) |->
                         [query    |-> errors[i].query,
                          expected |-> errors[i].expected,
                          actual   |-> errors[i].actual]]
    IN  [type             |-> "str",
         current_prompt   |-> prompt,
         iteration        |-> metrics.iteration,
         error_text       |-> error_text,
         placeholder      |-> error_text = <<>>,
         research_section |-> insights]

\* current_prompt = self.optimize_prompt(...), then the next round of the loop
OptimizePrompt ==
    /\ pc = "optimize_prompt"
    /\ \E r \in RewriteResponses(iteration) :
          /\ response' = r
          /\ current_prompt' = OptimizePromptResult(current_prompt, r)
    /\ metaprompt' = MetaPrompt(current_prompt,
                                metrics_history[Len(metrics_history)],
                                research_insights)
    /\ call_log' = Append(call_log, RemoteCall("rewrite", iteration, 0))
    /\ IF HasIteration(iteration)
       THEN /\ pc' = "run_iteration"
            /\ iteration' = iteration + 1
            /\ results' = <<>>
            /\ prompt_log' = Append(prompt_log, current_prompt')
            /\ stop_reason' = stop_reason
       ELSE /\ pc' = "done"
            /\ stop_reason' = "budget"
            /\ UNCHANGED <<iteration, results, prompt_log>>
    /\ UNCHANGED <<Config, TEST_QUERIES, query_idx, test_suite, result,
                   metrics_history, best_prompt, best_score, research_insights,
                   main_vars,
                   gateway_vars>>

CallAgent == CallVoiceAssistant({<<"answer_question">>})

CallAgentAny == CallVoiceAssistant(FunctionNames)

ProbeExpected == GetExpectedFunction(LoopProbeResponses)

ProbeExpectedAny == GetExpectedFunction(ProbeResponses)

\* one iteration over suites of up to MaxEvalCases cases
NextEval ==
    \/ BuildSuite
    \/ StartLoop
    \/ CallAgentAny
    \/ ProbeExpectedAny
    \/ CompleteIteration

EvalSpec == InitEval /\ [][NextEval]_vars

Next ==
    \/ BuildSuite
    \/ StartLoop
    \/ CallAgent
    \/ ProbeExpected
    \/ CompleteIteration
    \/ ResearchOptimizationStrategies
    \/ OptimizePrompt

Spec == Init /\ [][Next]_vars

\* the run is one sequential thread: it takes its next step whenever it has one
\* (every remote call returns or times out)
FairSpec == Spec /\ WF_vars(Next)

\* ------------------------------------------------------- rewrite after a run
\* seeds that differ from one another
SeedNames == <<"q1", "q2", "q3", "q4", "q5", "q6", "q7", "q8">>

RewriteQueries ==
    {[i \in 1..k |-> <<SeedNames[i]>>] : k \in 0..MaxRewriteCases}

\* two iterations without paraphrases and research; the second target is above
\* the score of an iteration without a mistake, so that it too is rewritten
RewriteConfigs ==
    {[DefaultConfig EXCEPT !.MAX_ITERATIONS = 2,
                           !.VARIATIONS_PER_QUERY = 1,
                           !.USE_PERPLEXITY = FALSE,
                           !.TARGET_ACCURACY = target] :
        target \in {PerMille(900), PerMille(950)}}

InitRewrite ==
    /\ Config \in RewriteConfigs
    /\ credentials = Credentials
    /\ TEST_QUERIES \in RewriteQueries
    /\ pc = "generate_suite"
    /\ messages = <<>>
    /\ InitState

\* the paraphrase request is not answered (none is wanted)
BuildSuiteOfSeeds == GenerateTestSuite({PyNone})

\* the probe answers with the function the agent is offered
ProbeExpectedSure == GetExpectedFunction({Completion(<<"answer_question">>)})

RewriteNext ==
    \/ BuildSuiteOfSeeds
    \/ StartLoop
    \/ CallAgent
    \/ ProbeExpectedSure
    \/ CompleteIteration
    \/ OptimizePrompt

RewriteSpec == InitRewrite /\ [][RewriteNext]_vars

\* -------------------------------------------------------------------- main()
\* the settings as read from the environment, before Config.validate()
MainConfigs ==
    {[DefaultConfig EXCEPT !.PRIMARY_MODEL = backend,
                           !.MAX_ITERATIONS = budget,
                           !.VARIATIONS_PER_QUERY = n,
                           !.USE_PERPLEXITY = research] :
        backend \in {"CLAUDE", "OPENAI", "GEMINI"}, budget \in 0..MaxIter,
        n \in 1..MaxVariations, research \in BOOLEAN}

\* main() is entered: nothing is validated or constructed yet
InitMain ==
    /\ Config \in MainConfigs
    /\ credentials \in SUBSET Credentials
    /\ TEST_QUERIES \in QueryLists
    /\ Len(TEST_QUERIES) * Config.VARIATIONS_PER_QUERY <= MaxCases
    /\ pc = "validate"
    /\ messages = <<>>
    /\ InitState

\* mutant: the else branch is missing, any other backend selection passes
ConfigErrorKeysOnly(config, keys) ==
    \/ config.PRIMARY_MODEL = "CLAUDE" /\ "ANTHROPIC_API_KEY" \notin keys
    \/ config.PRIMARY_MODEL = "OPENAI" /\ "OPENAI_API_KEY" \notin keys

\* Config.validate(): the cases that end in sys.exit(1)
ConfigError(config, keys) ==
    IF config.PRIMARY_MODEL = "CLAUDE" THEN "ANTHROPIC_API_KEY" \notin keys
    ELSE IF config.PRIMARY_MODEL = "OPENAI" THEN "OPENAI_API_KEY" \notin keys
    ELSE TRUE

\* Config.validate()
Validate ==
    /\ pc = "validate"
    /\ IF ConfigError(Config, credentials)
       THEN /\ pc' = "exit"
            /\ Config' = Config
       ELSE /\ pc' = "construct"
            /\ Config' = IF Config.USE_PERPLEXITY
                            /\ "PERPLEXITY_API_KEY" \notin credentials
                         THEN [Config EXCEPT !.USE_PERPLEXITY = FALSE]
                         ELSE Config
    /\ UNCHANGED <<TEST_QUERIES, query_idx, test_suite, response, current_prompt,
                   iteration, results, result, metrics_history, best_prompt,
                   best_score, research_insights, stop_reason, prompt_log,
                   call_log, metaprompt, main_vars,
                   gateway_vars>>

\* optimizer = VoiceAssistantOptimizer()
Construct ==
    /\ pc = "construct"
    /\ metrics_history' = <<>>
    /\ best_prompt' = INITIAL_PROMPT
    /\ best_score' = Frac(0, 1)
    /\ pc' = "generate_suite"
    /\ UNCHANGED <<Config, TEST_QUERIES, query_idx, test_suite, response,
                   current_prompt, iteration, results, result, research_insights,
                   stop_reason, prompt_log, call_log, metaprompt, main_vars,
                   gateway_vars>>

\* save_results(): the run directory is made and best_prompt.txt written
SaveBestPrompt ==
    /\ pc = "done"
    /\ files' = files \cup {"best_prompt.txt"}
    /\ pc' = "save_metrics"
    /\ UNCHANGED <<Config, TEST_QUERIES, query_idx, test_suite, response,
                   current_prompt, iteration, results, result, metrics_history,
                   best_prompt, best_score, research_insights, stop_reason,
                   prompt_log, call_log, metaprompt, credentials,
                   gateway_vars>>

\* save_results(): metrics.json written
SaveMetrics ==
    /\ pc = "save_metrics"
    /\ files' = files \cup {"metrics.json"}
    /\ pc' = "saved"
    /\ UNCHANGED <<Config, TEST_QUERIES, query_idx, test_suite, response,
                   current_prompt, iteration, results, result, metrics_history,
                   best_prompt, best_score, research_insights, stop_reason,
                   prompt_log, call_log, metaprompt, credentials,
                   gateway_vars>>

\* main(): the best prompt is printed and, with matplotlib installed, the
\* progress graph saved
ShowResults ==
    /\ pc = "saved"
    /\ \E matplotlib \in BOOLEAN :
          files' = IF matplotlib THEN files \cup {"optimization_progress.png"}
                   ELSE files
    /\ pc' = "finished"
    /\ UNCHANGED <<Config, TEST_QUERIES, query_idx, test_suite, response,
                   current_prompt, iteration, results, result, metrics_history,
                   best_prompt, best_score, research_insights, stop_reason,
                   prompt_log, call_log, metaprompt, credentials,
                   gateway_vars>>

\* where main() stands inside its try block
InTry ==
    pc \in {"generate_suite", "run_iteration", "get_expected_function",
            "research", "optimize_prompt", "done", "save_metrics", "saved"}

\* a KeyboardInterrupt is delivered: inside the try block main() reports it and
\* calls sys.exit(1) (the wrappers catch Exception only, so it passes them);
\* before the try block nothing catches it
KeyboardInterrupt ==
    /\ pc \in {"validate", "construct"} \/ InTry
    /\ pc' = IF InTry THEN "interrupted" ELSE "uncaught"
    /\ stop_reason' = "interrupt"
    /\ UNCHANGED <<Config, TEST_QUERIES, query_idx, test_suite, response,
                   current_prompt, iteration, results, result, metrics_history,
                   best_prompt, best_score, research_insights, prompt_log,
                   call_log, metaprompt, main_vars,
                   gateway_vars>>

MainNext ==
    \/ Validate
    \/ Construct
    \/ BuildSuite
    \/ StartLoop
    \/ CallAgent
    \/ ProbeExpected
    \/ CompleteIteration
    \/ ResearchOptimizationStrategies
    \/ OptimizePrompt
    \/ SaveBestPrompt
    \/ SaveMetrics
    \/ ShowResults
    \/ KeyboardInterrupt

MainSpec == InitMain /\ [][MainNext]_vars

\* ------------------------------------------------- gateway calls on their own
\* a turn of a request: {"role": ..., "content": ...}
Turns ==
    [role : {"system", "user", "assistant"}, content : {<<"a">>, <<"b">>}]

\* the turn lists a client may hand to a wrapper
MessageLists == UNION {[1..n -> Turns] : n \in 0..MaxTurns}

\* msg['role'] == 'system'
IsSystem(msg) == msg.role = "system"

\* the else branch of the loop over messages
NotSystem(msg) == msg.role # "system"

RECURSIVE ClaudeSystemPrompt(_, _)
\* ClaudeClient: system_prompt after the loop over messages, starting from
\* `system`: every system turn overwrites it
ClaudeSystemPrompt(msgs, system) ==
    IF msgs = <<>> THEN system
    ELSE ClaudeSystemPrompt(Tail(msgs),
                            IF IsSystem(Head(msgs))
                            THEN PyStr(Head(msgs).content) ELSE system)

\* ClaudeClient: claude_messages after the loop over messages
ClaudeMessages(msgs) == SelectSeq(msgs, NotSystem)

\* ClaudeClient.chat_completion: the arguments of self.client.messages.create;
\* system=system_prompt if system_prompt else ""
ClaudeChatRequest(msgs, system) ==
    LET system_prompt == ClaudeSystemPrompt(msgs, system)
    IN  [api      |-> "anthropic.messages.create",
         system   |-> IF Truthy(system_prompt) /\ system_prompt.value # <<>>
                      THEN system_prompt.value ELSE <<>>,
         messages |-> ClaudeMessages(msgs),
         tools    |-> FALSE]

\* ClaudeClient.chat_completion_with_tools: the arguments of
\* self.client.messages.create; system_prompt starts as ""
ClaudeToolsRequest(msgs) ==
    [api      |-> "anthropic.messages.create",
     system   |-> ClaudeSystemPrompt(msgs, PyStr(<<>>)).value,
     messages |-> ClaudeMessages(msgs),
     tools    |-> TRUE]

\* OpenAIClient.chat_completion: kwargs, "messages": messages
OpenAIChatRequest(msgs, functions) ==
    [api       |-> "openai.ChatCompletion.create",
     messages  |-> msgs,
     functions |-> functions]

\* what a wrapper returns: the completion, or None on any exception
GatewayResponses == {PyNone, Completion(<<"a">>)}

\* ClaudeClient.chat_completion(messages, system=...)
ClaudeChatCompletion ==
    /\ Config.PRIMARY_MODEL = "CLAUDE"
    /\ \E system \in {PyNone, PyStr(<<"s">>)} :
          request' = ClaudeChatRequest(messages, system)
    /\ response' \in GatewayResponses
    /\ UNCHANGED <<Config, TEST_QUERIES, pc, query_idx, test_suite,
                   current_prompt, iteration, results, result, metrics_history,
                   best_prompt, best_score, research_insights, stop_reason,
                   prompt_log, call_log, metaprompt, main_vars, messages>>

\* ClaudeClient.chat_completion_with_tools(messages, tools)
ClaudeChatCompletionWithTools ==
    /\ Config.PRIMARY_MODEL = "CLAUDE"
    /\ request' = ClaudeToolsRequest(messages)
    /\ response' \in GatewayResponses \cup {FunctionCall(<<"answer_question">>, TRUE)}
    /\ UNCHANGED <<Config, TEST_QUERIES, pc, query_idx, test_suite,
                   current_prompt, iteration, results, result, metrics_history,
                   best_prompt, best_score, research_insights, stop_reason,
                   prompt_log, call_log, metaprompt, main_vars, messages>>

\* OpenAIClient.chat_completion(messages, functions=...)
OpenAIChatCompletion ==
    /\ Config.PRIMARY_MODEL = "OPENAI"
    /\ \E functions \in BOOLEAN :
          request' = OpenAIChatRequest(messages, functions)
    /\ response' \in GatewayResponses
    /\ UNCHANGED <<Config, TEST_QUERIES, pc, query_idx, test_suite,
                   current_prompt, iteration, results, result, metrics_history,
                   best_prompt, best_score, research_insights, stop_reason,
                   prompt_log, call_log, metaprompt, main_vars, messages>>

\* the clients are constructed and a client holds the turns of a request
InitGateway ==
    /\ Config \in {[DefaultConfig EXCEPT !.PRIMARY_MODEL = backend] :
                       backend \in {"CLAUDE", "OPENAI"}}
    /\ credentials = Credentials
    /\ TEST_QUERIES = <<>>
    /\ pc = "generate_suite"
    /\ messages \in MessageLists
    /\ InitState

GatewayNext ==
    \/ ClaudeChatCompletion
    \/ ClaudeChatCompletionWithTools
    \/ OpenAIChatCompletion

GatewaySpec == InitGateway /\ [][GatewayNext]_vars

\* ================================================================= claims
Terminated == pc \in {"done", "crashed"}

\* ------------------------------------------------------------ stopping rules
\* a - b < m on fractions, by cross multiplication
DiffBelow(a, b, m) ==
    (a.num * b.den - b.num * a.den) * m.den < m.num * (a.den * b.den)

\* a >= b on fractions
AtLeast(a, b) == a.num * b.den >= b.num * a.den

\* the step records an iteration's Metrics
IterationRecorded == Len(metrics_history') = Len(metrics_history) + 1

\* rule (a) on the history h: the last overall reaches the target
RuleTarget(h) == AtLeast(h[Len(h)].overall, Config.TARGET_ACCURACY)

\* rule (b) on the history h: not the first iteration and too small a gain
RulePlateau(h) ==
    /\ Len(h) > 1
    /\ DiffBelow(h[Len(h)].overall, h[Len(h) - 1].overall, Config.MIN_IMPROVEMENT)

\* rule (c) on the history h: the iteration count reached the maximum
RuleBudget(h) == Len(h) >= Config.MAX_ITERATIONS

\* C1: the step that records an iteration stops the loop with the reason of the
\* first matching rule in the order target, plateau, budget, and otherwise
\* leaves it running (a next prompt is asked for); and an iteration only ever
\* follows an iteration after which no rule matched.
C1_StoppingRulesInOrder ==
    [][/\ IterationRecorded =>
            LET h == metrics_history'
            IN  /\ Len(h) = iteration
                /\ RuleTarget(h) => pc' = "done" /\ stop_reason' = "target"
                /\ ~RuleTarget(h) /\ RulePlateau(h) =>
                        pc' = "done" /\ stop_reason' = "plateau"
                /\ ~RuleTarget(h) /\ ~RulePlateau(h) /\ RuleBudget(h) =>
                        pc' = "done" /\ stop_reason' = "budget"
                /\ ~RuleTarget(h) /\ ~RulePlateau(h) /\ ~RuleBudget(h) =>
                        /\ pc' \in {"research", "optimize_prompt"}
                        /\ stop_reason' = "none"
       /\ (iteration' # iteration /\ iteration >= 1) =>
            /\ iteration' = iteration + 1
            /\ Len(metrics_history) = iteration
            /\ ~RuleTarget(metrics_history)
            /\ ~RulePlateau(metrics_history)
            /\ ~RuleBudget(metrics_history)
    ]_vars

\* C1 witness: iteration 2 reached the target with a gain below the threshold
\* on the last budgeted iteration: all three rules match, the reason is target.
C1_Witness ==
    /\ pc = "done"
    /\ stop_reason = "target"
    /\ Len(metrics_history) = 2
    /\ RuleTarget(metrics_history)
    /\ RulePlateau(metrics_history)
    /\ RuleBudget(metrics_history)

\* C2: never more than MAX_ITERATIONS iterations are started or recorded, and
\* every run ends, whatever the remote calls return.
C2_TerminatesWithinBudget ==
    /\ [](/\ iteration <= (IF Config.MAX_ITERATIONS > 0 THEN Config.MAX_ITERATIONS ELSE 0)
          /\ Len(metrics_history) <= iteration
          /\ Len(prompt_log) = iteration)
    /\ <>Terminated

\* C2 witness: a run of two iterations ended by the budget alone, neither the
\* target nor the plateau rule having matched, the rewrite call having failed.
C2_Witness ==
    /\ pc = "done"
    /\ stop_reason = "budget"
    /\ Config.MAX_ITERATIONS = 2
    /\ Len(metrics_history) = 2
    /\ ~RuleTarget(metrics_history)
    /\ ~RulePlateau(metrics_history)
    /\ prompt_log[2] = INITIAL_PROMPT

\* ------------------------------------------------------------ best tracking
\* C3: best_score never decreases from one step to the next, and a step changes
\* it only by recording an iteration whose overall score is strictly greater,
\* which then is the new best_score.
C3_BestScoreMonotone ==
    [][/\ AtLeast(best_score', best_score)
       /\ best_score' # best_score =>
            /\ IterationRecorded
            /\ ~AtLeast(best_score, metrics_history'[Len(metrics_history')].overall)
            /\ best_score' = metrics_history'[Len(metrics_history')].overall
    ]_vars

\* C3 witness: the second iteration scored below the first; best_score is still
\* the first iteration's score.
C3_Witness ==
    /\ Len(metrics_history) = 2
    /\ ~AtLeast(metrics_history[2].overall, metrics_history[1].overall)
    /\ best_score = metrics_history[1].overall

\* the iterations that set best_score: the first to reach the highest overall
\* score recorded, provided that score is above the initial 0.0
BestIterations ==
    {i \in 1..Len(metrics_history) :
        /\ metrics_history[i].overall.num > 0
        /\ \A j \in 1..Len(metrics_history) :
              AtLeast(metrics_history[i].overall, metrics_history[j].overall)
        /\ \A j \in 1..(i - 1) :
              ~AtLeast(metrics_history[j].overall, metrics_history[i].overall)}

\* C4: best_prompt is the prompt run_iteration was called with in the iteration
\* that set best_score (the earliest one on a tie), the initial prompt while no
\* iteration set it; and a step that replaces current_prompt leaves best_prompt
\* and best_score alone.
C4_BestPromptIsEvaluatedPrompt ==
    /\ [](/\ BestIterations = {} => best_prompt = INITIAL_PROMPT
          /\ \A i \in BestIterations :
                /\ best_prompt = prompt_log[i]
                /\ best_score = metrics_history[i].overall)
    /\ [][current_prompt' # current_prompt =>
            best_prompt' = best_prompt /\ best_score' = best_score]_vars

\* C4 witness: the second iteration evaluated a rewritten prompt and tied with
\* the first; best_prompt is still the first iteration's prompt.
C4_Witness ==
    /\ Len(metrics_history) = 2
    /\ metrics_history[2].overall = metrics_history[1].overall
    /\ prompt_log[2] # prompt_log[1]
    /\ current_prompt = prompt_log[2]
    /\ best_prompt = prompt_log[1]

\* ------------------------------------------------------------------ plateau
\* C5: an iteration n >= 2 recorded with an overall below the target and a gain
\* over iteration n - 1 below MIN_IMPROVEMENT stops the loop with reason
\* plateau; the reason plateau is only ever given from iteration 2 on; and once
\* it is given nothing follows (no iteration, no rewrite).
C5_PlateauStops ==
    [][/\ (/\ IterationRecorded
           /\ iteration >= 2
           /\ ~RuleTarget(metrics_history')
           /\ DiffBelow(metrics_history'[iteration].overall,
                        metrics_history'[iteration - 1].overall,
                        Config.MIN_IMPROVEMENT))
          => (pc' = "done" /\ stop_reason' = "plateau")
       /\ stop_reason' = "plateau" => iteration' >= 2 /\ pc' = "done"
       /\ stop_reason = "plateau" => vars' = vars
    ]_vars

\* C5 witness: the loop stopped for plateau after iteration 2, with budget left
\* and a prompt that had been rewritten.
C5_Witness ==
    /\ stop_reason = "plateau"
    /\ iteration = 2
    /\ Len(metrics_history) = 2
    /\ current_prompt # INITIAL_PROMPT

\* --------------------------------------------------------------- evaluation
\* every Evaluation held: those of the recorded Metrics and those of the
\* iteration under way
Evaluations ==
    {results[i] : i \in 1..Len(results)}
    \cup UNION {{metrics_history[k].evaluations[i] :
                    i \in 1..Len(metrics_history[k].evaluations)} :
                k \in 1..Len(metrics_history)}

\* C6: in every Evaluation correct is true exactly when actual equals expected,
\* and every Metrics' correct count is the number of its Evaluations whose
\* correct flag is true.
C6_CorrectIffEqual ==
    /\ \A e \in Evaluations : e.correct <=> (e.actual = e.expected)
    /\ \A k \in 1..Len(metrics_history) :
          LET m == metrics_history[k]
          IN  m.correct = Cardinality({i \in 1..Len(m.evaluations) :
                                         m.evaluations[i].correct})

\* C6 witness: a recorded Metrics of three Evaluations, some correct and some
\* not.
C6_Witness ==
    /\ Len(metrics_history) = 1
    /\ metrics_history[1].total = 3
    /\ metrics_history[1].correct = 2
    /\ ~metrics_history[1].evaluations[2].correct

\* the agent call yielded no function and the probe failed
BothAbsent(e) == e.actual = PyNone /\ e.expected = PyStr(<<"unknown">>)

\* C7 as claimed: an Evaluation whose actual is none and whose expected is the
\* sentinel "unknown" is a match.
C7_AbsentMatchesUnknown ==
    \A e \in Evaluations : BothAbsent(e) => e.correct

\* C7 as amended: a failed probe gives the str "unknown" and an agent call
\* without a function gives None, which are not equal, so such an Evaluation
\* is a mismatch; an Evaluation whose actual is None is never correct.
C7_AbsentNeverCorrect ==
    /\ \A e \in Evaluations : e.actual = PyNone => ~e.correct
    /\ (pc = "run_iteration" /\ results # <<>> /\ response = PyNone) =>
          results[Len(results)].expected = PyStr(<<"unknown">>)
    /\ (pc = "get_expected_function" /\ (response = PyNone \/ "content" \in DOMAIN response)) =>
          result.function = PyNone

\* C7 witness: the probe failed after an agent call that yielded no function;
\* the Evaluation is recorded as incorrect.
C7_Witness ==
    /\ pc = "run_iteration"
    /\ results # <<>>
    /\ response = PyNone
    /\ BothAbsent(results[Len(results)])
    /\ ~results[Len(results)].correct

\* --------------------------------------------------------------------- score
\* C8: every Metrics has function_acc = correct / total (0 when total is 0)
\* and overall = function_acc * FUNCTION_WEIGHT + 0.8 * PARAMETER_WEIGHT, and
\* two Metrics with the same correct and total have the same overall.
C8_OverallFromCounts ==
    /\ \A k \in 1..Len(metrics_history) :
          LET m == metrics_history[k]
              acc == m.function_acc
              fw == Config.FUNCTION_WEIGHT
              pw == Config.PARAMETER_WEIGHT
          IN  /\ m.total = Len(m.evaluations)
              /\ IF m.total = 0 THEN acc.num = 0
                 ELSE acc.num * m.total = m.correct * acc.den
              /\ m.overall.num * (acc.den * fw.den * 10 * pw.den)
                    = m.overall.den * (acc.num * fw.num * 10 * pw.den
                                       + 8 * pw.num * acc.den * fw.den)
    /\ \A j, k \in 1..Len(metrics_history) :
          (/\ metrics_history[j].correct = metrics_history[k].correct
           /\ metrics_history[j].total = metrics_history[k].total)
          => metrics_history[j].overall = metrics_history[k].overall

\* C8 witness: two of three Evaluations correct under the weights 0.5 and
\* 0.25: overall is 2/3 * 0.5 + 0.8 * 0.25 = 8/15.
C8_Witness ==
    /\ Len(metrics_history) = 1
    /\ metrics_history[1].total = 3
    /\ metrics_history[1].correct = 2
    /\ Config.FUNCTION_WEIGHT = PerMille(500)
    /\ metrics_history[1].overall = [num |-> 8, den |-> 15]

\* ---------------------------------------------------------- suite building
\* the stretches of `content` between line breaks, as (first, last) positions
LineSpans(content) ==
    {<<i, j>> \in (1..(Len(content) + 1)) \X (0..Len(content)) :
        /\ i <= j + 1
        /\ \A k \in i..j : content[k] # "\n"
        /\ (i = 1 \/ content[i - 1] = "\n")
        /\ (j = Len(content) \/ content[j + 1] = "\n")}

\* those holding something other than blanks
NonBlankSpans(content) ==
    {sp \in LineSpans(content) :
        \E k \in sp[1]..sp[2] : content[k] \notin Whitespace}

\* the TestCases the last round of the suite loop added
AddedCases == SubSeq(test_suite', Len(test_suite) + 1, Len(test_suite'))

\* C9: with variations_per_query = 1 the suite holds exactly one TestCase per
\* seed processed so far, in seed order, each with variation = original = the
\* seed, whatever the gateway answered; once built its size is the seed count.
C9_OneVariationSuiteIsSeeds ==
    Config.VARIATIONS_PER_QUERY = 1 =>
        /\ Len(test_suite) = query_idx - 1
        /\ \A i \in 1..Len(test_suite) :
              /\ test_suite[i].original = TEST_QUERIES[i]
              /\ test_suite[i].variation = test_suite[i].original
        /\ (pc = "done" => Len(test_suite) = Len(TEST_QUERIES))

\* C9 witness: two seeds, variations_per_query = 1, the gateway returned two
\* non-blank lines for the last seed, and the suite is built.
C9_Witness ==
    /\ Config.VARIATIONS_PER_QUERY = 1
    /\ pc = "done"
    /\ Len(TEST_QUERIES) = 2
    /\ Len(test_suite) = 2
    /\ response = Completion(<<"p1", "\n", "p1">>)

\* C10: each round of the suite loop keeps the suite built so far and appends,
\* for its seed, the seed itself (variation = original) followed by
\* min(variations_per_query - 1, number of non-blank returned lines) cases whose
\* variation is a stripped non-blank returned line; a failed call appends the
\* seed alone. So a seed contributes between 1 and variations_per_query cases.
C10_SeedPlusParaphrases ==
    [][query_idx' = query_idx + 1 =>
        LET q == TEST_QUERIES[query_idx]
            n == Config.VARIATIONS_PER_QUERY
            new == AddedCases
            lines == IF response' = PyNone THEN {}
                     ELSE NonBlankSpans(response'.content)
            wanted == IF Cardinality(lines) < n - 1 THEN Cardinality(lines) ELSE n - 1
        IN  /\ SubSeq(test_suite', 1, Len(test_suite)) = test_suite
            /\ Len(new) >= 1 /\ Len(new) <= n
            /\ Len(new) = 1 + wanted
            /\ new[1] = [original |-> q, variation |-> q]
            /\ \A i \in 2..Len(new) :
                  /\ new[i].original = q
                  /\ new[i].variation # <<>>
                  /\ \E sp \in lines :
                        new[i].variation = Strip(SubSeq(response'.content, sp[1], sp[2]))
    ]_vars

\* C10 witness: variations_per_query = 2; the first seed got its paraphrase,
\* the second none because the call failed (fewer cases than requested).
C10_Witness ==
    /\ Config.VARIATIONS_PER_QUERY = 2
    /\ pc = "done"
    /\ Len(TEST_QUERIES) = 2
    /\ Len(test_suite) = 3
    /\ test_suite[2].variation # test_suite[2].original
    /\ response = PyNone

\* the ways of cutting the suite into one stretch per seed processed: the sets
\* of the positions at which a stretch starts
SeedStarts ==
    {S \in SUBSET (1..Len(test_suite)) :
        /\ Cardinality(S) = query_idx - 1
        /\ (test_suite # <<>> => 1 \in S)}

\* C11: the suite is cut into contiguous stretches, one per seed processed and
\* in the order of TEST_QUERIES, such that every TestCase of the k-th stretch
\* has the k-th seed as its original and the stretch starts with the seed's own
\* entry (variation = original).
C11_SeedOrderContiguous ==
    /\ query_idx - 1 <= Len(TEST_QUERIES)
    /\ \E S \in SeedStarts :
          \A i \in 1..Len(test_suite) :
             LET k == Cardinality({j \in S : j <= i})
             IN  /\ test_suite[i].original = TEST_QUERIES[k]
                 /\ (i \in S => test_suite[i].variation = test_suite[i].original)

\* C11 witness: two different seeds, each followed by its paraphrase.
C11_Witness ==
    /\ pc = "done"
    /\ Len(test_suite) = 4
    /\ <<test_suite[1].original, test_suite[2].original,
         test_suite[3].original, test_suite[4].original>>
          = <<TEST_QUERIES[1], TEST_QUERIES[1], TEST_QUERIES[2], TEST_QUERIES[2]>>
    /\ TEST_QUERIES[1] # TEST_QUERIES[2]
    /\ test_suite[1].variation = TEST_QUERIES[1]
    /\ test_suite[2].variation # TEST_QUERIES[1]
    /\ test_suite[3].variation = TEST_QUERIES[2]

\* ------------------------------------------------------ suite and iterations
\* the Evaluations rs are those of the first Len(rs) TestCases, in suite order
MatchesSuite(rs) ==
    /\ Len(rs) <= Len(test_suite)
    /\ \A i \in 1..Len(rs) : rs[i].query = test_suite[i].variation

\* C12: the suite only changes while it is built, before the first iteration,
\* by one paraphrase request per seed; from then on it stays as it is. The
\* Evaluations of the iteration under way are those of the first TestCases in
\* suite order, and every Metrics holds exactly one Evaluation per TestCase, in
\* suite order, with the TestCase's variation as query and total = suite size.
C12_OneEvaluationPerTestCase ==
    /\ [](/\ MatchesSuite(results)
          /\ \A k \in 1..Len(metrics_history) :
                /\ MatchesSuite(metrics_history[k].evaluations)
                /\ Len(metrics_history[k].evaluations) = Len(test_suite)
                /\ metrics_history[k].total = Len(test_suite)
          /\ (pc # "generate_suite" =>
                Cardinality({i \in 1..Len(call_log) : call_log[i].site = "variations"})
                  = Len(TEST_QUERIES)))
    /\ [][test_suite' # test_suite =>
            /\ pc = "generate_suite" /\ pc' = "generate_suite"
            /\ iteration = 0 /\ metrics_history = <<>>
            /\ call_log' = Append(call_log, RemoteCall("variations", 0, query_idx))
       ]_vars

\* C12 witness: a suite of two seeds, the first with a paraphrase; the iteration
\* recorded three Evaluations although the first agent call and the last probe
\* failed.
C12_Witness ==
    /\ Len(metrics_history) = 1
    /\ Len(test_suite) = 3
    /\ metrics_history[1].total = 3
    /\ metrics_history[1].evaluations[2].query # test_suite[2].original
    /\ metrics_history[1].evaluations[1].actual = PyNone
    /\ metrics_history[1].evaluations[3].expected = PyStr(<<"unknown">>)

\* ------------------------------------------------------------------ research
\* the positions of the Research Advisor's calls in the call log
ResearchCalls == {i \in 1..Len(call_log) : call_log[i].site = "research"}

\* the step issues a remote call at `site`
Calls(site) ==
    /\ Len(call_log') = Len(call_log) + 1
    /\ call_log'[Len(call_log')].site = site

C14_RewriterFailureKeepsPrompt ==
    [][(Calls("rewrite") /\ response' = PyNone) =>
        /\ current_prompt' = current_prompt
        /\ pc' = "run_iteration"
        /\ stop_reason' = "none"
        /\ iteration' = iteration + 1
        /\ prompt_log' = Append(prompt_log, current_prompt)
        /\ results' = <<>>
        /\ best_prompt' = best_prompt
        /\ best_score' = best_score
        /\ metrics_history' = metrics_history
    ]_vars

\* C14 witness: iteration 2 is about to evaluate the initial prompt again, the
\* rewrite call after iteration 1 having failed.
C14_Witness ==
    /\ pc = "run_iteration"
    /\ iteration = 2
    /\ results = <<>>
    /\ response = PyNone
    /\ call_log[Len(call_log)].site = "rewrite"
    /\ current_prompt = INITIAL_PROMPT
    /\ prompt_log = <<INITIAL_PROMPT, INITIAL_PROMPT>>

\* ------------------------------------------------------------ remote failures
\* C15 as claimed: whatever a remote call returns, the run is not aborted: no
\* exception leaves optimize().
C15_NoRemoteFailureAborts ==
    /\ pc # "crashed"
    /\ stop_reason # "exception"

\* the last remote call issued
LastCall == call_log[Len(call_log)]

\* C16 as claimed: no call is ever issued twice; the calls of an iteration are,
\* TestCase by TestCase in suite order, one agent call followed by one probe for
\* the same TestCase, the probe being what comes after every agent call; a
\* failed call leaves the sentinel (no function, "unknown") and the next call
\* is the next one in order; a recorded iteration made two calls per TestCase.
C16_OneCallEachNoRetry ==
    /\ \A i, j \in 1..Len(call_log) : i # j => call_log[i] # call_log[j]
    /\ \A i \in 1..Len(call_log) :
          /\ call_log[i].site = "agent" =>
                /\ call_log[i].case \in 1..Len(test_suite)
                /\ (i > 1 /\ call_log[i].case > 1) =>
                      call_log[i - 1] = RemoteCall("probe", call_log[i].iteration,
                                                   call_log[i].case - 1)
                /\ IF i < Len(call_log)
                   THEN call_log[i + 1] = RemoteCall("probe", call_log[i].iteration,
                                                     call_log[i].case)
                   ELSE pc = "get_expected_function"
          /\ call_log[i].site = "probe" =>
                /\ i > 1
                /\ call_log[i - 1] = RemoteCall("agent", call_log[i].iteration,
                                                 call_log[i].case)
    /\ (pc = "get_expected_function" /\ response = PyNone) =>
          result.function = PyNone
    /\ (pc = "run_iteration" /\ results # <<>> /\ response = PyNone) =>
          results[Len(results)].expected = PyStr(<<"unknown">>)
    /\ \A k \in 1..Len(metrics_history) :
          Cardinality({i \in 1..Len(call_log) :
                         /\ call_log[i].iteration = k
                         /\ call_log[i].site \in {"agent", "probe"}})
            = 2 * Len(test_suite)

\* --------------------------------------------------------------- agent call
\* the kinds of outcome of the tool-enabled call
CallFailed(resp) == resp = PyNone
TextProduced(resp) == resp # PyNone /\ "content" \in DOMAIN resp
ToolInvoked(resp) == resp # PyNone /\ "function_call" \in DOMAIN resp

\* C20 as claimed: once an agent call is over its outcome is exactly one of
\* failed, text, tool; call_voice_assistant's result for the TestCase has the
\* tool's name as function in the tool case and None in the other two, and its
\* success flag tells a failed call from a call that invoked no tool.
C20_ThreeOutcomes ==
    (call_log # <<>> /\ LastCall.site = "agent") =>
        /\ Cardinality({k \in {"failed", "text", "tool"} :
                \/ k = "failed" /\ CallFailed(response)
                \/ k = "text" /\ TextProduced(response)
                \/ k = "tool" /\ ToolInvoked(response)}) = 1
        /\ result # PyNone
        /\ result.query = test_suite[LastCall.case].variation
        /\ ToolInvoked(response) =>
              result.function = PyStr(response.function_call.name)
        /\ ~ToolInvoked(response) => result.function = PyNone
        /\ result.success <=> ~CallFailed(response)

\* -------------------------------------------------------------------- main()
\* the two files save_results writes
OutputFiles == {"best_prompt.txt", "metrics.json"}

\* C17 as claimed: after an interrupt the run is stopped and the run directory
\* holds both output files or neither.
C17_InterruptLeavesNoPartialOutput ==
    stop_reason = "interrupt" =>
        /\ pc \in {"interrupted", "uncaught"}
        /\ (OutputFiles \subseteq files \/ OutputFiles \cap files = {})

\* C18: validation ends in exit exactly when the selected backend's credential
\* is missing or the selection is neither CLAUDE nor OPENAI; the exit happens
\* straight from validation, with no optimizer constructed, no remote call made
\* and no file written, and nothing follows it. Otherwise the optimizer is
\* constructed with the settings as given, except that research is switched
\* off when its credential is missing, and research is never called then.
C18_ConfigErrorAbortsFirst ==
    /\ [](/\ pc = "exit" => (call_log = <<>> /\ files = {} /\ test_suite = <<>>
                               /\ metrics_history = <<>> /\ iteration = 0)
          /\ ResearchCalls # {} => "PERPLEXITY_API_KEY" \in credentials)
    /\ [][/\ (pc = "validate" /\ pc' # "uncaught") =>
               LET backend == Config.PRIMARY_MODEL
                   missing == \/ backend = "CLAUDE" /\ "ANTHROPIC_API_KEY" \notin credentials
                              \/ backend = "OPENAI" /\ "OPENAI_API_KEY" \notin credentials
                   invalid == backend \notin {"CLAUDE", "OPENAI"}
               IN  /\ pc' = "exit" <=> (missing \/ invalid)
                   /\ pc' # "exit" =>
                        /\ pc' = "construct"
                        /\ Config' = [Config EXCEPT !.USE_PERPLEXITY =
                                         @ /\ "PERPLEXITY_API_KEY" \in credentials]
          /\ pc' = "exit" => pc = "validate"
          /\ pc' = "generate_suite" /\ pc # "generate_suite" => pc = "construct"
          /\ pc' = "construct" => pc = "validate"
          /\ pc = "exit" => vars' = vars
       ]_vars

\* C18 witness: OPENAI is selected and only its credential is missing.
C18_Witness ==
    /\ pc = "exit"
    /\ Config.PRIMARY_MODEL = "OPENAI"
    /\ credentials = {"ANTHROPIC_API_KEY", "PERPLEXITY_API_KEY"}

\* ------------------------------------------------------------ error examples
\* the positions of the incorrect Evaluations of the Metrics the last
\* metaprompt was written for
IncorrectPositions ==
    LET evaluations == metrics_history[metaprompt.iteration].evaluations
    IN  {i \in 1..Len(evaluations) : ~evaluations[i].correct}

\* C19: the error lines of a metaprompt are min(5, number of incorrect
\* Evaluations) many, the j-th line being that of the j-th incorrect Evaluation
\* of the Metrics in iteration order (its query, expected and actual), and the
\* placeholder is used exactly when no Evaluation is incorrect.
C19_FirstFiveErrors ==
    metaprompt # PyNone =>
        LET evaluations == metrics_history[metaprompt.iteration].evaluations
            bad == IncorrectPositions
            n == IF Cardinality(bad) < 5 THEN Cardinality(bad) ELSE 5
        IN  /\ Len(metaprompt.error_text) = n
            /\ \A j \in 1..n :
                  \E i \in bad :
                     /\ Cardinality({k \in bad : k <= i}) = j
                     /\ metaprompt.error_text[j] =
                           [query    |-> evaluations[i].query,
                            expected |-> evaluations[i].expected,
                            actual   |-> evaluations[i].actual]
            /\ metaprompt.placeholder <=> bad = {}

\* C19 witness: six Evaluations, none of them correct; the metaprompt lists the
\* first five.
C19_Witness ==
    /\ metaprompt # PyNone
    /\ IncorrectPositions = 1..6
    /\ Len(metaprompt.error_text) = 5
    /\ metaprompt.error_text[1].query = <<"q1">>
    /\ metaprompt.error_text[5].query = <<"q5">>
    /\ ~metaprompt.placeholder

\* ----------------------------------------------------------- metrics history
\* the iterations whose run_iteration has returned: all but the one in progress
IterationsRun ==
    IF iteration >= 1 /\ pc \in {"run_iteration", "get_expected_function", "crashed"}
    THEN iteration - 1 ELSE iteration

\* C22: a step leaves metrics_history alone or appends one Metrics to it, the
\* latter exactly when it completes an iteration; the entry at position i has
\* iteration index i, and the length is the number of iterations run.
C22_HistoryAppendOnly ==
    /\ [](/\ \A i \in 1..Len(metrics_history) : metrics_history[i].iteration = i
          /\ Len(metrics_history) = IterationsRun)
    /\ [][/\ \/ metrics_history' = metrics_history
             \/ /\ IterationRecorded
                /\ SubSeq(metrics_history', 1, Len(metrics_history)) = metrics_history
          /\ IterationRecorded <=>
                (pc = "run_iteration" /\ Len(results) = Len(test_suite))]_vars

\* C22 witness: two iterations were run and the loop has ended; the history
\* holds the Metrics of iteration 1 and of iteration 2, in this order.
C22_Witness ==
    /\ pc = "done"
    /\ iteration = 2
    /\ Len(metrics_history) = 2
    /\ metrics_history[1].iteration = 1
    /\ metrics_history[2].iteration = 2
    /\ metrics_history[1].overall # metrics_history[2].overall

\* ----------------------------------------------------------------- rewriter
\* the positions of the Rewriter's calls in the call log
RewriteCalls == {i \in 1..Len(call_log) : call_log[i].site = "rewrite"}

\* C23: the step that records an iteration goes on to the Rewriter (possibly
\* through the research call) exactly when none of the rules target, plateau
\* and budget matches, and otherwise ends the loop; the Rewriter is called only
\* then, once; after k >= 1 iterations were started k - 1 rewrite calls were
\* made; and the prompt of iteration n + 1 is what the Rewriter returned after
\* iteration n (the stripped answer, or its input prompt when it had none).
C23_RewriteExactlyWhenLoopContinues ==
    /\ [](/\ iteration >= 1 => Cardinality(RewriteCalls) = iteration - 1
          /\ pc \in {"research", "optimize_prompt"} =>
                /\ Len(metrics_history) = iteration
                /\ ~RuleTarget(metrics_history)
                /\ ~RulePlateau(metrics_history)
                /\ ~RuleBudget(metrics_history))
    /\ [][/\ IterationRecorded =>
                LET h == metrics_history'
                IN  IF RuleTarget(h) \/ RulePlateau(h) \/ RuleBudget(h)
                    THEN pc' = "done" /\ call_log' = call_log
                    ELSE pc' \in {"research", "optimize_prompt"}
          /\ Calls("rewrite") =>
                /\ pc = "optimize_prompt"
                /\ call_log'[Len(call_log')].iteration = iteration
                /\ iteration' = iteration + 1
                /\ pc' = "run_iteration"
                /\ current_prompt' =
                      IF response' = PyNone THEN current_prompt
                      ELSE Strip(response'.content)
                /\ prompt_log' = Append(prompt_log, current_prompt')
          /\ (pc = "optimize_prompt" /\ pc' # pc) => Calls("rewrite")
          /\ iteration' # iteration /\ iteration >= 1 => Calls("rewrite")]_vars

\* C23 witness: a run of two iterations has ended; one rewrite call was made,
\* after iteration 1, and iteration 2 ran the prompt it returned.
C23_Witness ==
    /\ pc = "done"
    /\ Len(metrics_history) = 2
    /\ Cardinality(RewriteCalls) = 1
    /\ \A i \in RewriteCalls : call_log[i].iteration = 1
    /\ prompt_log = <<INITIAL_PROMPT, <<"P1">>>>

\* ------------------------------------------------------- best score, maximum
\* the iterations recorded with an overall score above 0.0
ScoredAboveZero ==
    {i \in 1..Len(metrics_history) : metrics_history[i].overall.num > 0}

\* C24: best_score is 0.0 or an overall score of the history and is at least 0.0
\* and at least every overall score of the history (it is their maximum); with
\* an empty history it is 0.0; and best_prompt is the initial prompt as long as
\* no iteration was recorded with an overall score above 0.0.
C24_BestScoreIsMaximum ==
    /\ best_score.num >= 0
    /\ \A i \in 1..Len(metrics_history) :
          AtLeast(best_score, metrics_history[i].overall)
    /\ \/ best_score = Frac(0, 1)
       \/ \E i \in 1..Len(metrics_history) : metrics_history[i].overall = best_score
    /\ metrics_history = <<>> => best_score = Frac(0, 1)
    /\ ScoredAboveZero = {} => best_prompt = INITIAL_PROMPT

\* C24 witness: two iterations, the second one on a rewritten prompt, both
\* scored 0.0; best_score is still 0.0 and best_prompt the initial prompt.
C24_Witness ==
    /\ Len(metrics_history) = 2
    /\ ScoredAboveZero = {}
    /\ prompt_log[2] = <<"P1">>
    /\ best_score = Frac(0, 1)
    /\ best_prompt = INITIAL_PROMPT
    /\ current_prompt # best_prompt

\* ------------------------------------------------------------- score range
\* 0.8 * PARAMETER_WEIGHT
OverallLow == FracMul(Frac(8, 10), Config.PARAMETER_WEIGHT)

\* FUNCTION_WEIGHT + 0.8 * PARAMETER_WEIGHT
OverallHigh == FracAdd(Config.FUNCTION_WEIGHT, OverallLow)

\* C25: with weights that are not negative every overall score recorded lies
\* between 0.8 * PARAMETER_WEIGHT and FUNCTION_WEIGHT + 0.8 * PARAMETER_WEIGHT,
\* which are 0.24 and 0.94 for the weights 0.7 and 0.3; and with a
\* TARGET_ACCURACY above the upper end the loop never stops with reason target:
\* when it has stopped, the reason is plateau or budget.
C25_OverallRange ==
    (Config.FUNCTION_WEIGHT.num >= 0 /\ Config.PARAMETER_WEIGHT.num >= 0) =>
        /\ \A i \in 1..Len(metrics_history) :
              /\ AtLeast(metrics_history[i].overall, OverallLow)
              /\ AtLeast(OverallHigh, metrics_history[i].overall)
        /\ (Config.FUNCTION_WEIGHT = PerMille(700)
               /\ Config.PARAMETER_WEIGHT = PerMille(300)) =>
              OverallLow = Frac(24, 100) /\ OverallHigh = Frac(94, 100)
        /\ ~AtLeast(OverallHigh, Config.TARGET_ACCURACY) =>
              /\ stop_reason # "target"
              /\ pc = "done" => stop_reason \in {"plateau", "budget"}

\* C25 witness: the target 0.95 is above the upper end 0.94; the first
\* iteration scored the lower end, the second the upper end, and the loop
\* stopped with reason budget.
C25_Witness ==
    /\ pc = "done"
    /\ Config.TARGET_ACCURACY = PerMille(950)
    /\ Len(metrics_history) = 2
    /\ metrics_history[1].overall = OverallLow
    /\ metrics_history[2].overall = OverallHigh
    /\ OverallHigh = Frac(94, 100)
    /\ stop_reason = "budget"

\* ------------------------------------------------------------ system turns
\* the system-role turns of a turn list, in order
SystemTurns(msgs) == SelectSeq(msgs, IsSystem)

\* the system instructions a request carries to the backend, in order: the
\* system argument, or the contents of the system-role turns passed on
SystemTextsSent(req) ==
    IF "system" \in DOMAIN req THEN <<req.system>>
    ELSE [i \in 1..Len(SystemTurns(req.messages)) |->
             SystemTurns(req.messages)[i].content]

\* C21: for turns with several system-role turns the request that reaches the
\* backend carries the content of the last of them as its only system
\* instruction, and the other turns in their order, on CLAUDE and on OPENAI.
C21_LastSystemTurnWins ==
    (request # PyNone /\ Len(SystemTurns(messages)) >= 2) =>
        /\ SystemTextsSent(request) =
              <<SystemTurns(messages)[Len(SystemTurns(messages))].content>>
        /\ SelectSeq(request.messages, NotSystem) = SelectSeq(messages, NotSystem)

====
